---- MODULE Spec2Model ----
(***************************************************************************)
(* PlaneWave DeltaT dew-heater driver (drivers/auxiliary/planewave_delta). *)
(*                                                                         *)
(* The model follows DeltaT::sendCommand statement by statement (one step  *)
(* per serial I/O call), and the handlers that call it: Handshake,         *)
(* updateProperties and initializeHeaters.  Bytes are kept as their bit    *)
(* pattern 0..255; `char` is read through CharVal, because the signedness  *)
(* of plain char is fixed by the build (signed on x86, unsigned on ARM     *)
(* Linux), and the driver is built for both.                               *)
(***************************************************************************)
EXTENDS Integers, Sequences, FiniteSets, TLC

\* ------------------------------------------------------------------ bounds
\* How many times the host may ask for a connection in one behaviour.
MaxConnects == 2
\* Longest buffer handed to calculateCheckSum in the codec specification.
MaxLen == 5

\* ------------------------------------------------------- program constants
\* for (int j = 0; j < 3; j++)
MaxAttempts == 3
\* sendCommand(cmd, res, 6, 6) in initializeHeaters
HeatersResLen == 6
\* A version query that asks for the heater-count response length.
VersionResLen_AsHeaters == HeatersResLen
\* sendCommand(cmd, res, 6, 10) in Handshake
VersionResLen == 10

VARIABLES
    charSigned,      \* the build: TRUE when plain char is signed
    connected,       \* isConnected()
    defined,         \* InfoTP and the heater properties are defined to the host
    InfoT,           \* InfoT[INFO_VERSION].text
    HeaterControlSP, \* vector of switch properties, one record per push_back
    HeaterParamNP,   \* vector of number properties, one record per push_back
    pc,              \* position of the single driver thread
    caller,          \* which handler is inside sendCommand
    j,               \* sendCommand: loop counter
    rc,              \* sendCommand: last tty return code
    res,             \* the caller's response buffer, indices 0..resLen-1
    resLen,          \* sendCommand: res_len
    chk,             \* sendCommand: uint8_t chk
    nWrites,         \* observed: tty_write calls of the running exchange
    nReads,          \* observed: tty_read calls of the running exchange
    nSleeps,         \* observed: usleep calls of the running exchange
    okReadAt,        \* observed: which tty_read of the exchange returned TTY_OK, else 0
    failedBy,        \* observed: why the running exchange failed
    discovered,      \* observed: what initializeHeaters returned for this connection
    lastCount,       \* observed: byte 4 of the last validated count response
    lenBefore,       \* observed: HeaterControlSP.size() when initializeHeaters began
    versionBytes,    \* observed: bytes 5..8 of the last response Handshake parsed
    nConnects,       \* observed: connection requests so far
    lastOp,          \* observed: the host request handled last and what it did
    cmdFrame,        \* the handler's command buffer cmd, indices 0..QueryLen-1
    hdr,             \* the build: the header constants of planewave_delta.h
    timers,          \* pending one-shot timers registered with SetTimer
    tickSeq          \* observed: flips each time TimerHit runs

vars == << charSigned, connected, defined, InfoT, HeaterControlSP, HeaterParamNP,
           pc, caller, j, rc, res, resLen, chk, nWrites, nReads, nSleeps,
           okReadAt, failedBy, discovered, lastCount, lenBefore, versionBytes,
           nConnects, lastOp, cmdFrame, hdr, timers, tickSeq >>

Byte == 0 .. 255

\* ------------------------------------------------------------- Frame codec

\* The int a `char` holding bit pattern b promotes to.
CharVal(b) == IF charSigned /\ b >= 128 THEN b - 256 ELSE b

\* Conversion of an int to uint8_t.
ToUint8(x) == x % 256

\* Conversion of an int to uint16_t.
ToUint16(x) == x % 65536

RECURSIVE BitOr(_, _)
\* Bitwise | of two non-negative integers.
BitOr(a, b) ==
    IF a = 0 THEN b
    ELSE IF b = 0 THEN a
    ELSE (IF a % 2 = 1 \/ b % 2 = 1 THEN 1 ELSE 0) + 2 * BitOr(a \div 2, b \div 2)

RECURSIVE SumChars(_, _, _)
\* sum += cmd[i] for i = from .. to, each cmd[i] promoted from char to int.
SumChars(cmd, from, to) ==
    IF from > to THEN 0 ELSE CharVal(cmd[from]) + SumChars(cmd, from + 1, to)

\* A slip of the loop's first index: the start marker is summed too.
calculateCheckSum_FromMarker(cmd, len) == ToUint8(-SumChars(cmd, 0, len - 2))

\* A slip of the loop's first index the other way: the length byte is skipped.
calculateCheckSum_SkipLength(cmd, len) == ToUint8(-SumChars(cmd, 2, len - 2))

\* for (i = 1; i < len - 1; i++) sum += cmd[i];  return (-sum & 0xFF);
\* -sum & 0xFF on a two's complement int is -sum modulo 256.
calculateCheckSum(cmd, len) == ToUint8(-SumChars(cmd, 1, len - 2))

\* !(chk != res[res_len - 1]): uint8_t chk against the char res[res_len - 1],
\* both promoted to int.
ChecksumMatches(c, r, len) == c = CharVal(r[len - 1])

\* ------------------------------------------------------------- sendCommand

\* Control after tty_write when the write error is only logged.
AfterWrite_NoReturn(rcw) == "read"

\* if (rc != TTY_OK) { ...; return false; }  else fall through to tty_read.
AfterWrite(rcw) == IF rcw # "TTY_OK" THEN "ret_false" ELSE "read"

\* if (rc != TTY_OK) { ...; return false; } after the loop; else the checksum.
AfterLoop(rcl) == IF rcl # "TTY_OK" THEN "ret_false" ELSE "check"

\* if (rc == TTY_OK) break;  else usleep(100000).
AfterRead(rcr) == IF rcr = "TTY_OK" THEN AfterLoop(rcr) ELSE "sleep"

\* A loop bound that is off by one: j <= 3.
LoopContinues_OffByOne(jj) == jj <= MaxAttempts

\* The loop condition j < 3.
LoopContinues(jj) == jj < MaxAttempts

\* A checksum mismatch that goes round the write+read cycle again.
AfterValidate_Retry(ok, jj) ==
    IF ok THEN "ret_true" ELSE IF jj + 1 < MaxAttempts THEN "write" ELSE "ret_false"

\* if (chk != res[res_len - 1]) { ...; return false; }  ...  return true;
AfterValidate(ok, jj) == IF ok THEN "ret_true" ELSE "ret_false"

\* char res[DRIVER_LEN] = {0}: the res_len bytes the exchange uses.
ZeroBuffer(len) == [i \in 0 .. len - 1 |-> 0]

\* Entry of sendCommand for handler c with response length len.
BeginExchange(c, len) ==
    /\ caller' = c
    /\ pc' = "write"
    /\ j' = 0
    /\ rc' = "TTY_OK"
    /\ res' = ZeroBuffer(len)
    /\ resLen' = len
    /\ chk' = 0
    /\ nWrites' = 0
    /\ nReads' = 0
    /\ nSleeps' = 0
    /\ okReadAt' = 0
    /\ failedBy' = "none"

\* The handler's locals go out of scope; control is back with the host.
EndHandler ==
    /\ caller' = "none"
    /\ pc' = "idle"
    /\ j' = 0
    /\ rc' = "TTY_OK"
    /\ res' = << >>
    /\ cmdFrame' = << >>
    /\ resLen' = 0
    /\ chk' = 0
    /\ nWrites' = 0
    /\ nReads' = 0
    /\ nSleeps' = 0
    /\ okReadAt' = 0
    /\ failedBy' = "none"

\* --------------------------------------------------------------- Handshake

\* uint16_t bld = res[7] << 8 | res[8];  both chars promote to int; the
\* conversion to uint16_t keeps the low 16 bits, and | acts bit by bit, so
\* the low 16 bits of the operands decide the result.
ParseBuild(r) ==
    BitOr(ToUint16(CharVal(r[7]) * 256), ToUint16(CharVal(r[8])))

\* std::to_string(res[5]) + "." + std::to_string(res[6]) + " (" +
\* std::to_string(bld) + ")";  to_string takes the promoted int.
VersionText(r) ==
    ToString(CharVal(r[5])) \o "." \o ToString(CharVal(r[6])) \o
    " (" \o ToString(ParseBuild(r)) \o ")"

\* ------------------------------------------------------------ command frames

\* cmd_len of both queries: sendCommand(cmd, res, 6, ...)
QueryLen == 6

\* A length byte that counts every byte after the start marker, checksum
\* included.
QueryLength_UpToChecksum == QueryLen - 1

\* cmd[1] = 0x03
QueryLength == 3

\* The constants of planewave_delta.h used in the frame header.  Two
\* assignments, one with every byte below 0x80 and one with bytes above it.
Headers ==
    { [DRIVER_SOM |-> 59, DEVICE_PC |-> 32, DEVICE_DELTA |-> 50,
       CMD_GET_VERSION |-> 126, COH_NUMHEATERS |-> 48],
      [DRIVER_SOM |-> 59, DEVICE_PC |-> 32, DEVICE_DELTA |-> 178,
       CMD_GET_VERSION |-> 254, COH_NUMHEATERS |-> 176] }

\* char cmd[DRIVER_LEN] = {0}; cmd[0] .. cmd[4] assigned; then
\* cmd[5] = calculateCheckSum(cmd, 6).  The first QueryLen bytes are kept.
QueryFrame(h, code) ==
    LET body == [i \in 0 .. QueryLen - 1 |->
                    CASE i = 0 -> h.DRIVER_SOM
                      [] i = 1 -> QueryLength
                      [] i = 2 -> h.DEVICE_PC
                      [] i = 3 -> h.DEVICE_DELTA
                      [] i = 4 -> code
                      [] OTHER -> 0]
    IN  [body EXCEPT ![QueryLen - 1] = calculateCheckSum(body, QueryLen)]

\* A handshake that parses the buffer whatever sendCommand returned.
HandshakeProceeds_Always(ok) == TRUE

\* if (!sendCommand(cmd, res, 6, 10)) return false;
HandshakeProceeds(ok) == ok

\* ------------------------------------------------------- initializeHeaters

\* A count kept in a plain int: no conversion to uint8_t.
HeaterCount_Int(r) == CharVal(r[4])

\* uint8_t nHeaters = res[4];
HeaterCount(r) == ToUint8(CharVal(r[4]))

\* A discovery that goes on to create the controls whatever sendCommand returned.
DiscoveryProceeds_Always(ok) == TRUE

\* if (!sendCommand(cmd, res, 6, 6)) return false;
DiscoveryProceeds(ok) == ok

\* One switch property: name DEW_<i>, HEATER_ON = ISS_OFF, HEATER_OFF = ISS_ON.
ControlSP(i) == [index |-> i, HEATER_ON |-> "ISS_OFF", HEATER_OFF |-> "ISS_ON"]

\* One number property: name PARAM_<i>; IUFillNumber's last argument is the
\* value: period 1 (0.1..60, step 1) and duty 1 (1..100, step 5).
ControlNP(i) == [index |-> i, PARAM_PERIOD |-> 1, PARAM_DUTY |-> 1]

\* The first loop: for (uint8_t i = 0; i < nHeaters; i++) push_back.
PushControls(v, n) == v \o [k \in 1 .. n |-> ControlSP(k - 1)]

\* The second loop: for (uint8_t i = 0; i < nHeaters; i++) push_back.
PushParams(v, n) == v \o [k \in 1 .. n |-> ControlNP(k - 1)]

\* ------------------------------------------------------------- the device

\* What a read may deliver: a response whose trailing byte is the two's
\* complement checksum of bytes 1..len-2 plus d (d = 0: an intact frame).
RECURSIVE SumBytes(_, _, _)
SumBytes(f, from, to) ==
    IF from > to THEN 0 ELSE f[from] + SumBytes(f, from + 1, to)

TwosComplement(s) == (256 - (s % 256)) % 256

WithTrailer(f, len, d) ==
    [f EXCEPT ![len - 1] = (TwosComplement(SumBytes(f, 1, len - 2)) + d) % 256]

TrailerOffsets == {0, 1}

VersionResponses ==
    { WithTrailer([i \in 0 .. 9 |->
                     CASE i = 0 -> 59
                       [] i = 1 -> h
                       [] i = 5 -> major
                       [] i = 6 -> 2
                       [] i = 7 -> hi
                       [] i = 8 -> lo
                       [] OTHER -> 0], 10, d) :
        h \in {1, 128}, major \in {3, 200}, hi \in {1, 128}, lo \in {44, 128},
        d \in TrailerOffsets }

CountResponses ==
    { WithTrailer([i \in 0 .. 5 |->
                     CASE i = 0 -> 59
                       [] i = 1 -> b1
                       [] i = 2 -> b2
                       [] i = 3 -> 1
                       [] i = 4 -> n
                       [] OTHER -> 0], 6, d) :
        b1 \in {1, 128}, b2 \in {1, 128}, n \in {0, 3, 129},
        d \in TrailerOffsets }

Responses(c) == IF c = "Handshake" THEN VersionResponses ELSE CountResponses

\* ------------------------------------------------------- host requests

\* No request handled yet.  period and duty are in the units of the number
\* properties (seconds, percent).
NoOp ==
    [op |-> "none", wasConnected |-> FALSE, wasReady |-> FALSE, index |-> 0,
     period |-> 0, duty |-> 0, on |-> FALSE, writes |-> 0, changed |-> FALSE,
     result |-> FALSE]

\* INDI::DefaultDevice::ISNewNumber / ISNewSwitch for a property that is not
\* one of the framework's own: nothing is done and false is returned.
DefaultDeviceISNew == FALSE

\* An ISNewNumber that stores whatever values arrive for PARAM_<idx>.
ISNewNumberBody_Store(np, idx, period, duty) ==
    IF idx + 1 <= Len(np)
    THEN [np EXCEPT ![idx + 1].PARAM_PERIOD = period, ![idx + 1].PARAM_DUTY = duty]
    ELSE np

\* ISNewNumber: if (dev != nullptr && strcmp(dev, getDeviceName()) == 0) { }
\* the body is empty, so HeaterParamNP is what it was.
ISNewNumberBody(np, idx, period, duty) == np

\* An ISNewSwitch that sets HEATER_ON of DEW_<idx> without asking the session.
ISNewSwitchBody_Set(sp, idx, on) ==
    IF idx + 1 <= Len(sp)
    THEN [sp EXCEPT ![idx + 1].HEATER_ON = IF on THEN "ISS_ON" ELSE "ISS_OFF",
                    ![idx + 1].HEATER_OFF = IF on THEN "ISS_OFF" ELSE "ISS_ON"]
    ELSE sp

\* ISNewSwitch: both branches (ForceSP, heater control) are empty, so
\* HeaterControlSP is what it was.
ISNewSwitchBody(sp, idx, on) == sp

\* bool DeltaT::setPWMEnabled(bool, double, double) { ...; return false; }
setPWMEnabled(enabled, period, duty) == FALSE

\* bool DeltaT::forceReboot() { return false; }
forceReboot == FALSE

\* bool DeltaT::forceReset() { return false; }
forceReset == FALSE

\* The requests the host sends, as << index, period, duty >>: one inside the
\* properties' ranges (0.1..60 and 1..100) for the first and for the third
\* channel, and one for each way of being outside them.
PwmRequests ==
    { << 0, 30, 50 >>, << 2, 60, 100 >>, << 0, 0, 50 >>, << 0, 61, 50 >>,
      << 0, 30, 0 >>, << 0, 30, 150 >>, << 200, 30, 50 >> }

\* Heater indices the host names in on/off requests.
SwitchIndices == {0, 200}

\* -------------------------------------------------------------------- Init

Init ==
    /\ charSigned \in BOOLEAN
    /\ connected = FALSE
    /\ defined = FALSE
    /\ InfoT = "NA"
    /\ HeaterControlSP = << >>
    /\ HeaterParamNP = << >>
    /\ pc = "idle"
    /\ caller = "none"
    /\ j = 0
    /\ rc = "TTY_OK"
    /\ res = << >>
    /\ resLen = 0
    /\ chk = 0
    /\ nWrites = 0
    /\ nReads = 0
    /\ nSleeps = 0
    /\ okReadAt = 0
    /\ failedBy = "none"
    /\ discovered = "none"
    /\ lastCount = 0
    /\ lenBefore = 0
    /\ versionBytes = << >>
    /\ nConnects = 0
    /\ lastOp = NoOp
    /\ cmdFrame = << >>
    /\ hdr \in Headers
    /\ timers = 0
    /\ tickSeq = 0

\* ----------------------------------------------------------------- actions

\* The host asks for a connection: the serial plugin opens the port and calls
\* the registered Handshake, which builds the version query and enters
\* sendCommand(cmd, res, 6, 10).
Connect ==
    /\ pc = "idle"
    /\ ~connected
    /\ nConnects < MaxConnects
    /\ nConnects' = nConnects + 1
    /\ lastOp' = [NoOp EXCEPT !.op = "connect"]
    /\ cmdFrame' = QueryFrame(hdr, hdr.CMD_GET_VERSION)
    /\ BeginExchange("Handshake", VersionResLen)
    /\ UNCHANGED << charSigned, connected, defined, InfoT, HeaterControlSP,
                    HeaterParamNP, discovered, lastCount, lenBefore,
                    versionBytes,
                    hdr, timers, tickSeq >>

\* rc = tty_write(PortFD, cmd, cmd_len, &nbytes_written), and the test on rc.
Write ==
    /\ pc = "write"
    /\ \E rcw \in {"TTY_OK", "TTY_WRITE_ERROR"} :
          /\ rc' = rcw
          /\ pc' = AfterWrite(rcw)
          /\ failedBy' = IF rcw # "TTY_OK" THEN "write" ELSE failedBy
    /\ nWrites' = nWrites + 1
    /\ UNCHANGED << charSigned, connected, defined, InfoT, HeaterControlSP,
                    HeaterParamNP, caller, j, res, resLen, chk, nReads, nSleeps,
                    okReadAt, discovered, lastCount, lenBefore, versionBytes,
                    nConnects, lastOp,
                    cmdFrame, hdr, timers, tickSeq >>

\* rc = tty_read(PortFD, res, res_len, DRIVER_TIMEOUT, &nbytes_read) returning
\* TTY_OK with res_len bytes in res, and the break out of the loop.
ReadOk ==
    /\ pc = "read"
    /\ \E f \in Responses(caller) : res' = f
    /\ rc' = "TTY_OK"
    /\ pc' = AfterRead("TTY_OK")
    /\ nReads' = nReads + 1
    /\ okReadAt' = nReads + 1
    /\ UNCHANGED << charSigned, connected, defined, InfoT, HeaterControlSP,
                    HeaterParamNP, caller, j, resLen, chk, nWrites, nSleeps,
                    failedBy, discovered, lastCount, lenBefore, versionBytes,
                    nConnects, lastOp,
                    cmdFrame, hdr, timers, tickSeq >>

\* tty_read failing or timing out.
ReadFail ==
    /\ pc = "read"
    /\ \E rcr \in {"TTY_READ_ERROR", "TTY_TIME_OUT"} :
          /\ rc' = rcr
          /\ pc' = AfterRead(rcr)
    /\ nReads' = nReads + 1
    /\ UNCHANGED << charSigned, connected, defined, InfoT, HeaterControlSP,
                    HeaterParamNP, caller, j, res, resLen, chk, nWrites, nSleeps,
                    okReadAt, failedBy, discovered, lastCount, lenBefore,
                    versionBytes, nConnects, lastOp,
                    cmdFrame, hdr, timers, tickSeq >>

\* usleep(100000); j++; the loop condition; after the loop, the test on rc.
Sleep ==
    /\ pc = "sleep"
    /\ nSleeps' = nSleeps + 1
    /\ j' = j + 1
    /\ pc' = IF LoopContinues(j + 1) THEN "write" ELSE AfterLoop(rc)
    /\ failedBy' = IF LoopContinues(j + 1) THEN failedBy ELSE "read"
    /\ UNCHANGED << charSigned, connected, defined, InfoT, HeaterControlSP,
                    HeaterParamNP, caller, rc, res, resLen, chk, nWrites, nReads,
                    okReadAt, discovered, lastCount, lenBefore, versionBytes,
                    nConnects, lastOp,
                    cmdFrame, hdr, timers, tickSeq >>

\* uint8_t chk = calculateCheckSum(res, res_len); the comparison with the
\* trailing byte.
Validate ==
    /\ pc = "check"
    /\ chk' = calculateCheckSum(res, resLen)
    /\ LET ok == ChecksumMatches(calculateCheckSum(res, resLen), res, resLen) IN
          /\ pc' = AfterValidate(ok, j)
          /\ failedBy' = IF ok THEN failedBy ELSE "checksum"
    /\ UNCHANGED << charSigned, connected, defined, InfoT, HeaterControlSP,
                    HeaterParamNP, caller, j, rc, res, resLen, nWrites, nReads,
                    nSleeps, okReadAt, discovered, lastCount, lenBefore,
                    versionBytes, nConnects, lastOp,
                    cmdFrame, hdr, timers, tickSeq >>

\* Handshake: if (!sendCommand(...)) return false;  the connection attempt
\* fails and the session stays disconnected.
HandshakeFails ==
    /\ pc \in {"ret_true", "ret_false"}
    /\ caller = "Handshake"
    /\ ~HandshakeProceeds(pc = "ret_true")
    /\ lastOp' = [NoOp EXCEPT !.op = "connect", !.result = FALSE]
    /\ EndHandler
    /\ UNCHANGED << charSigned, connected, defined, InfoT, HeaterControlSP,
                    HeaterParamNP, discovered, lastCount, lenBefore, versionBytes,
                    nConnects,
                    hdr, timers, tickSeq >>

\* Handshake after a good exchange: the version text is saved and true is
\* returned; the host marks the device connected and calls updateProperties,
\* whose connected branch enters initializeHeaters and its
\* sendCommand(cmd, res, 6, 6).
HandshakeSucceeds ==
    /\ pc \in {"ret_true", "ret_false"}
    /\ caller = "Handshake"
    /\ HandshakeProceeds(pc = "ret_true")
    /\ InfoT' = VersionText(res)
    /\ versionBytes' = << res[5], res[6], res[7], res[8] >>
    /\ connected' = TRUE
    /\ lastOp' = [NoOp EXCEPT !.op = "connect", !.result = TRUE]
    /\ lenBefore' = Len(HeaterControlSP)
    /\ discovered' = "pending"
    /\ cmdFrame' = QueryFrame(hdr, hdr.COH_NUMHEATERS)
    /\ BeginExchange("initializeHeaters", HeatersResLen)
    /\ UNCHANGED << charSigned, defined, HeaterControlSP, HeaterParamNP,
                    lastCount, nConnects,
                    hdr, timers, tickSeq >>

\* initializeHeaters: if (!sendCommand(...)) return false;  updateProperties
\* does not look at the result and defines the properties.
DiscoveryFails ==
    /\ pc \in {"ret_true", "ret_false"}
    /\ caller = "initializeHeaters"
    /\ ~DiscoveryProceeds(pc = "ret_true")
    /\ discovered' = "failed"
    /\ defined' = TRUE
    /\ EndHandler
    /\ UNCHANGED << charSigned, connected, InfoT, HeaterControlSP, HeaterParamNP,
                    lastCount, lenBefore, versionBytes,
                    nConnects, lastOp,
                    hdr, timers, tickSeq >>

\* initializeHeaters after a good exchange: nHeaters entries are pushed to
\* each vector; updateProperties then defines the properties.
DiscoverySucceeds ==
    /\ pc \in {"ret_true", "ret_false"}
    /\ caller = "initializeHeaters"
    /\ DiscoveryProceeds(pc = "ret_true")
    /\ HeaterControlSP' = PushControls(HeaterControlSP, HeaterCount(res))
    /\ HeaterParamNP' = PushParams(HeaterParamNP, HeaterCount(res))
    /\ lastCount' = res[4]
    /\ discovered' = "ok"
    /\ defined' = TRUE
    /\ EndHandler
    /\ UNCHANGED << charSigned, connected, InfoT, lenBefore, versionBytes,
                    nConnects, lastOp,
                    hdr, timers, tickSeq >>

\* The host disconnects: updateProperties takes its else branch and deletes
\* the properties; the vectors are left as they are.
Disconnect ==
    /\ pc = "idle"
    /\ connected
    /\ connected' = FALSE
    /\ defined' = FALSE
    /\ discovered' = "none"
    /\ lastOp' = [NoOp EXCEPT !.op = "disconnect", !.wasConnected = TRUE, !.result = TRUE]
    /\ UNCHANGED << charSigned, InfoT, HeaterControlSP, HeaterParamNP, pc, caller,
                    j, rc, res, resLen, chk, nWrites, nReads, nSleeps, okReadAt,
                    failedBy, lastCount, lenBefore, versionBytes,
                    nConnects,
                    cmdFrame, hdr, timers, tickSeq >>

\* The host sets PARAM_<idx> to (period, duty): ISNewNumber, whose own body
\* is empty, then the framework's handler.  No sendCommand is entered.
ISNewNumber ==
    /\ pc = "idle"
    /\ \E rq \in PwmRequests : \E idx \in {rq[1]}, period \in {rq[2]}, duty \in {rq[3]} :
          /\ HeaterParamNP' = ISNewNumberBody(HeaterParamNP, idx, period, duty)
          /\ lastOp' = [op |-> "setPwm", wasConnected |-> connected,
                        wasReady |-> connected /\ defined, index |-> idx,
                        period |-> period, duty |-> duty, on |-> FALSE,
                        writes |-> nWrites,
                        changed |-> ISNewNumberBody(HeaterParamNP, idx, period, duty)
                                        # HeaterParamNP,
                        result |-> DefaultDeviceISNew]
    /\ UNCHANGED << charSigned, connected, defined, InfoT, HeaterControlSP, pc,
                    caller, j, rc, res, resLen, chk, nWrites, nReads, nSleeps,
                    okReadAt, failedBy, discovered, lastCount, lenBefore,
                    versionBytes, nConnects,
                    cmdFrame, hdr, timers, tickSeq >>

\* The host switches DEW_<idx> on or off: ISNewSwitch takes its heater
\* branch, which is empty, then the framework's handler.
ISNewSwitchHeater ==
    /\ pc = "idle"
    /\ \E idx \in SwitchIndices, on \in BOOLEAN :
          /\ HeaterControlSP' = ISNewSwitchBody(HeaterControlSP, idx, on)
          /\ lastOp' = [op |-> "setHeater", wasConnected |-> connected,
                        wasReady |-> connected /\ defined, index |-> idx,
                        period |-> 0, duty |-> 0, on |-> on,
                        writes |-> nWrites,
                        changed |-> ISNewSwitchBody(HeaterControlSP, idx, on)
                                        # HeaterControlSP,
                        result |-> DefaultDeviceISNew]
    /\ UNCHANGED << charSigned, connected, defined, InfoT, HeaterParamNP, pc,
                    caller, j, rc, res, resLen, chk, nWrites, nReads, nSleeps,
                    okReadAt, failedBy, discovered, lastCount, lenBefore,
                    versionBytes, nConnects,
                    cmdFrame, hdr, timers, tickSeq >>

\* The host presses a ForceSP switch: ISNewSwitch takes its ForceSP branch,
\* which is empty (forceReset and forceReboot are not called), then the
\* framework's handler.
ISNewSwitchForce ==
    /\ pc = "idle"
    /\ \E what \in {"forceReset", "forceReboot"} :
          lastOp' = [op |-> what, wasConnected |-> connected,
                     wasReady |-> connected /\ defined, index |-> 0,
                     period |-> 0, duty |-> 0, on |-> FALSE, writes |-> nWrites,
                     changed |-> FALSE, result |-> DefaultDeviceISNew]
    /\ UNCHANGED << charSigned, connected, defined, InfoT, HeaterControlSP,
                    HeaterParamNP, pc, caller, j, rc, res, resLen, chk, nWrites,
                    nReads, nSleeps, okReadAt, failedBy, discovered, lastCount,
                    lenBefore, versionBytes, nConnects,
                    cmdFrame, hdr, timers, tickSeq >>

Next ==
    \/ Connect
    \/ Write
    \/ ReadOk
    \/ ReadFail
    \/ Sleep
    \/ Validate
    \/ HandshakeFails
    \/ HandshakeSucceeds
    \/ DiscoveryFails
    \/ DiscoverySucceeds
    \/ Disconnect
    \/ ISNewNumber
    \/ ISNewSwitchHeater
    \/ ISNewSwitchForce

Spec == Init /\ [][Next]_vars

\* ------------------------------------------------------------ the poll timer

\* A TimerHit that returns without calling SetTimer.
TimerHitRearms_Never(isConn) == FALSE

\* if (!isConnected()) return;  SetTimer(POLLMS);
TimerHitRearms(isConn) == isConn

\* TimerHit runs between handlers, with `rest` timers still pending.
TimerHit(rest) ==
    /\ pc = "idle"
    /\ timers' = rest + (IF TimerHitRearms(connected) THEN 1 ELSE 0)
    /\ tickSeq' = 1 - tickSeq
    /\ UNCHANGED << charSigned, connected, defined, InfoT, HeaterControlSP,
                    HeaterParamNP, pc, caller, j, rc, res, resLen, chk, nWrites,
                    nReads, nSleeps, okReadAt, failedBy, discovered, lastCount,
                    lenBefore, versionBytes, nConnects, lastOp, cmdFrame, hdr >>

\* The external scheduler calls TimerHit while no timer is pending.
HostTick ==
    /\ timers = 0
    /\ TimerHit(0)

\* A timer registered by SetTimer expires and the event loop calls TimerHit.
TimerExpires ==
    /\ timers > 0
    /\ TimerHit(timers - 1)

\* The steps the driver thread takes inside a handler.
DriverStep ==
    \/ Write
    \/ ReadOk
    \/ ReadFail
    \/ Sleep
    \/ Validate
    \/ HandshakeFails
    \/ HandshakeSucceeds
    \/ DiscoveryFails
    \/ DiscoverySucceeds

\* The session and its timer.  The property requests of the host have empty
\* bodies that touch neither the connection nor the timer; they are in Next.
NextTimer ==
    \/ Connect
    \/ DriverStep
    \/ Disconnect
    \/ HostTick
    \/ TimerExpires

\* A handler that has been entered runs to its return, and the event loop
\* calls a due timer once it is idle.
SpecTimer ==
    /\ Init
    /\ [][NextTimer]_vars
    /\ WF_vars(DriverStep)
    /\ WF_vars(TimerExpires)

\* ------------------------------------------------ the codec on its own

CodecBytes == {1, 127, 128, 255}

\* calculateCheckSum's inputs: every buffer of 2..MaxLen bytes over CodecBytes,
\* on either build.
InitCodec ==
    /\ charSigned \in BOOLEAN
    /\ resLen \in 2 .. MaxLen
    /\ res \in [0 .. resLen - 1 -> CodecBytes]
    /\ pc = "codec"
    /\ connected = FALSE
    /\ defined = FALSE
    /\ InfoT = "NA"
    /\ HeaterControlSP = << >>
    /\ HeaterParamNP = << >>
    /\ caller = "none"
    /\ j = 0
    /\ rc = "TTY_OK"
    /\ chk = 0
    /\ nWrites = 0
    /\ nReads = 0
    /\ nSleeps = 0
    /\ okReadAt = 0
    /\ failedBy = "none"
    /\ discovered = "none"
    /\ lastCount = 0
    /\ lenBefore = 0
    /\ versionBytes = << >>
    /\ nConnects = 0
    /\ lastOp = NoOp
    /\ cmdFrame = << >>
    /\ hdr \in Headers
    /\ timers = 0
    /\ tickSeq = 0

\* chk = calculateCheckSum(res, res_len)
CodecCheckSum ==
    /\ pc = "codec"
    /\ chk' = calculateCheckSum(res, resLen)
    /\ pc' = "codec_done"
    /\ UNCHANGED << charSigned, connected, defined, InfoT, HeaterControlSP,
                    HeaterParamNP, caller, j, rc, res, resLen, nWrites, nReads,
                    nSleeps, okReadAt, failedBy, discovered, lastCount, lenBefore,
                    versionBytes, nConnects, lastOp,
                    cmdFrame, hdr, timers, tickSeq >>

NextCodec == CodecCheckSum

SpecCodec == InitCodec /\ [][NextCodec]_vars

\* ------------------------------------------------------------ properties

\* The frame's trailing byte is the checksum of the frame, both as bytes 0..255.
IntactFrame(f, len) == f[len - 1] = TwosComplement(SumBytes(f, 1, len - 2))

\* Frame f is one byte away from an intact frame: replacing one byte at an
\* index in 1..len-2 by another value v, which changes the sum s of bytes
\* 1..len-2 by v - f[i], gives a frame whose trailing byte is its checksum.
OneByteFromIntact(f, len) ==
    \E s \in {SumBytes(f, 1, len - 2)} :
        \E i \in 1 .. len - 2 : \E v \in Byte :
            v # f[i] /\ f[len - 1] = TwosComplement(s - f[i] + v)

\* sendCommand is about to return, after a read that returned TTY_OK.
ExchangeEndedAfterRead == pc \in {"ret_true", "ret_false"} /\ okReadAt > 0

\* C1: an exchange whose read succeeds and returns a frame whose trailing
\* byte equals the checksum of the frame succeeds, whatever the byte values.
C1_IntactFrameAccepted ==
    (ExchangeEndedAfterRead /\ IntactFrame(res, resLen)) => pc = "ret_true"

\* C2: the checksum of a buffer of len >= 2 bytes is the 8-bit two's
\* complement of the unsigned sum of bytes 1..len-2, so bytes 1..len-2 plus
\* the checksum sum to 0 mod 256; byte 0 and byte len-1 do not influence it;
\* and the build's signed or unsigned accumulation gives that same value.
C2_ChecksumIsTwosComplement ==
    pc = "codec_done" =>
        /\ chk = TwosComplement(SumBytes(res, 1, resLen - 2))
        /\ (SumBytes(res, 1, resLen - 2) + chk) % 256 = 0
        /\ \A v \in Byte :
              /\ calculateCheckSum([res EXCEPT ![0] = v], resLen) = chk
              /\ calculateCheckSum([res EXCEPT ![resLen - 1] = v], resLen) = chk

\* C2 witness: a signed-char build has summed bytes >= 0x80 of a buffer with
\* at least two summed bytes.
C2_Witness ==
    /\ pc = "codec_done"
    /\ charSigned
    /\ resLen >= 4
    /\ res[1] >= 128
    /\ res[2] >= 128
    /\ chk # 0

\* C3: when the frame a read returned differs from a frame with a valid
\* trailing checksum in exactly one byte at an index in 1..len-2, the
\* exchange fails.
C3_MutatedFrameRejected ==
    (/\ ExchangeEndedAfterRead
     /\ OneByteFromIntact(res, resLen))
    => pc = "ret_false"

\* C3 witness: on a build where every intact frame is accepted, an exchange
\* has failed on a frame that is one payload byte away from an intact one.
C3_Witness ==
    /\ pc = "ret_false"
    /\ failedBy = "checksum"
    /\ ~charSigned
    /\ OneByteFromIntact(res, resLen)

\* C4: with all writes succeeding, an exchange whose k-th read is the first to
\* succeed has performed exactly k writes and k reads when it returns; one
\* whose reads all fail has performed exactly 3 writes and 3 reads and fails;
\* no exchange performs more than 3 writes.
C4_RetryBound ==
    /\ nWrites <= 3
    /\ (pc \in {"check", "ret_true", "ret_false"} /\ failedBy # "write" /\ okReadAt > 0)
          => (nWrites = okReadAt /\ nReads = okReadAt)
    /\ (pc \in {"ret_true", "ret_false"} /\ failedBy # "write" /\ okReadAt = 0)
          => (nWrites = 3 /\ nReads = 3 /\ pc = "ret_false")

\* C4 witness: an exchange returns failure after three writes and three
\* failed reads.
C4_Witness ==
    /\ pc = "ret_false"
    /\ failedBy = "read"
    /\ okReadAt = 0
    /\ nWrites = 3
    /\ nReads = 3

\* C5: once a write has failed the exchange is returning failure: every
\* earlier attempt had its read and its sleep, the failed write has neither,
\* and no write follows it.
C5_WriteFailureAborts ==
    failedBy = "write" =>
        /\ pc = "ret_false"
        /\ rc = "TTY_WRITE_ERROR"
        /\ nReads = nWrites - 1
        /\ nSleeps = nWrites - 1

\* C5 witness: the second write of an exchange failed, with an attempt left.
C5_Witness == failedBy = "write" /\ nWrites = 2 /\ pc = "ret_false"

\* C6: once a successfully read frame has failed the checksum comparison the
\* exchange is returning failure, and the writes and reads performed are
\* those up to the successful read: none follows the mismatch.
C6_MismatchNotRetried ==
    failedBy = "checksum" =>
        /\ pc = "ret_false"
        /\ nWrites = okReadAt
        /\ nReads = okReadAt

\* C6 witness: a corrupt frame arrived on the first attempt and the exchange
\* is failing with two attempts unused.
C6_Witness ==
    /\ failedBy = "checksum"
    /\ okReadAt = 1
    /\ ~IntactFrame(res, resLen)

\* C7: whenever the driver is idle, the heater collection holds exactly one
\* entry per channel of the most recent successful discovery, indices
\* 0..N-1 in order.
C7_OneEntryPerChannel ==
    pc = "idle" =>
        /\ Len(HeaterControlSP) = lastCount
        /\ Len(HeaterParamNP) = lastCount
        /\ \A k \in 1 .. Len(HeaterControlSP) : HeaterControlSP[k].index = k - 1
        /\ \A k \in 1 .. Len(HeaterParamNP) : HeaterParamNP[k].index = k - 1

\* C8: a successful discovery that began with an empty collection and whose
\* response carries count N leaves exactly N channels, indices 0..N-1 in
\* order, each off, with period 1 and duty 1.
C8_DiscoveryFromEmpty ==
    (pc = "idle" /\ discovered = "ok" /\ lenBefore = 0) =>
        /\ HeaterControlSP =
              [k \in 1 .. lastCount |->
                  [index |-> k - 1, HEATER_ON |-> "ISS_OFF", HEATER_OFF |-> "ISS_ON"]]
        /\ HeaterParamNP =
              [k \in 1 .. lastCount |->
                  [index |-> k - 1, PARAM_PERIOD |-> 1, PARAM_DUTY |-> 1]]

\* C8 witness: a signed-char build has discovered 129 channels from empty.
C8_Witness ==
    /\ pc = "idle"
    /\ discovered = "ok"
    /\ lenBefore = 0
    /\ charSigned
    /\ lastCount = 129
    /\ Len(HeaterControlSP) = 129

\* C9: the session is Ready (connected, properties defined to the host) only
\* when the discovery of this connection succeeded.
C9_ReadyOnlyAfterDiscovery ==
    (connected /\ defined) => discovered = "ok"

\* C10: the version text is major.minor (build) with major and minor the
\* unsigned values of their bytes and build = build-hi * 256 + build-lo.
C10_VersionParsed ==
    versionBytes # << >> =>
        InfoT = ToString(versionBytes[1]) \o "." \o ToString(versionBytes[2]) \o
                " (" \o ToString(versionBytes[3] * 256 + versionBytes[4]) \o ")"

\* C14 as stated: the version-query exchange asks for and validates a
\* 6-byte response, like the heater-count query.
C14_VersionResponseSixBytes ==
    caller = "Handshake" => (resLen = 6 /\ DOMAIN res = 0 .. 5)

\* C14 amended: the version-query exchange asks for a 10-byte response and
\* validates byte 9 against the checksum of bytes 1..8; the heater-count
\* exchange asks for 6 bytes.
C14_VersionResponseTenBytes ==
    /\ caller = "Handshake" => (resLen = 10 /\ DOMAIN res = 0 .. 9)
    /\ (caller = "Handshake" /\ pc = "ret_true") =>
          (chk = TwosComplement(SumBytes(res, 1, 8)) /\ CharVal(res[9]) = chk)
    /\ caller = "initializeHeaters" => (resLen = 6 /\ DOMAIN res = 0 .. 5)

\* C14 witness: a version exchange has validated a 10-byte response.
C14_Witness ==
    /\ caller = "Handshake"
    /\ pc = "ret_true"
    /\ resLen = 10
    /\ res[9] # 0

\* C16: when an exchange returns it has slept at most once between two
\* attempts: fewer sleeps than writes, and exactly 2 when all 3 reads failed.
C16_SleepsBetweenAttempts ==
    pc \in {"ret_true", "ret_false"} =>
        /\ nSleeps <= nWrites - 1
        /\ failedBy = "read" => nSleeps = 2

\* C17: the step on which initializeHeaters returns after a failed count
\* exchange leaves both vectors as they were, reports failure, hands control
\* back without another exchange, and that exchange made at most 3 writes.
C17_FailedDiscoveryCreatesNothing ==
    [][(pc = "ret_false" /\ caller = "initializeHeaters") =>
          /\ HeaterControlSP' = HeaterControlSP
          /\ HeaterParamNP' = HeaterParamNP
          /\ discovered' = "failed"
          /\ pc' = "idle"
          /\ nWrites <= 3]_vars

\* C17 witness: a discovery failed on a reconnect, with the channels of the
\* earlier connection still in the collection.
C17_Witness ==
    /\ pc = "idle"
    /\ discovered = "failed"
    /\ lenBefore > 0
    /\ Len(HeaterControlSP) = lenBefore

\* A set-request's parameters are valid: the index names a discovered
\* channel, the period is within 0.1..60 and the duty within 1..100.
ValidPwm(op) ==
    /\ op.index < Len(HeaterParamNP)
    /\ op.period >= 1 /\ op.period <= 60
    /\ op.duty >= 1 /\ op.duty <= 100

\* C11: after a setPwm request with valid parameters handled while Ready, the
\* request has succeeded and the channel holds the requested period and duty.
C11_SetPwmUpdates ==
    (lastOp.op = "setPwm" /\ lastOp.wasReady /\ ValidPwm(lastOp)) =>
        /\ lastOp.result
        /\ HeaterParamNP[lastOp.index + 1].PARAM_PERIOD = lastOp.period
        /\ HeaterParamNP[lastOp.index + 1].PARAM_DUTY = lastOp.duty

\* C12: a set-request with an invalid index, period or duty is rejected with
\* no write on the connection, no exchange begun and no channel state changed.
C12_InvalidRejectedBeforeIO ==
    (lastOp.op = "setPwm" /\ ~ValidPwm(lastOp)) =>
        /\ ~lastOp.result
        /\ lastOp.writes = 0
        /\ ~lastOp.changed
        /\ pc = "idle"
        /\ nWrites = 0
        /\ nReads = 0

\* C12 witness: while Ready with channels discovered, a request for channel 0
\* with a period above 60 has been handled.
C12_Witness ==
    /\ lastOp.op = "setPwm"
    /\ lastOp.wasReady
    /\ lastOp.index < Len(HeaterParamNP)
    /\ lastOp.period > 60

\* C13: a heater on/off request handled while the session is disconnected
\* fails, with no write or read on the connection and no channel state changed.
C13_SetHeaterDisconnectedNoIO ==
    (lastOp.op = "setHeater" /\ ~lastOp.wasConnected) =>
        /\ ~lastOp.result
        /\ lastOp.writes = 0
        /\ ~lastOp.changed
        /\ pc = "idle"
        /\ nWrites = 0
        /\ nReads = 0

\* C13 witness: after a disconnect that left channels in the collection, a
\* request to switch channel 0 on has been handled.
C13_Witness ==
    /\ lastOp.op = "setHeater"
    /\ ~lastOp.wasConnected
    /\ lastOp.on
    /\ lastOp.index < Len(HeaterControlSP)

\* C19: a force reset or force reboot request has sent exactly one command
\* frame and changed no heater-channel state.
C19_ForceSendsOneFrame ==
    lastOp.op \in {"forceReset", "forceReboot"} =>
        (lastOp.writes = 1 /\ ~lastOp.changed)

\* C20: the step on which Handshake returns after a failed exchange leaves the
\* version text as it was and reports failure with the session disconnected;
\* and the version text changes only on the step that follows a successful
\* version exchange.
C20_FailedHandshakeKeepsVersion ==
    [][/\ (pc = "ret_false" /\ caller = "Handshake") =>
             (InfoT' = InfoT /\ ~connected' /\ ~lastOp'.result /\ pc' = "idle")
       /\ InfoT' # InfoT => (pc = "ret_true" /\ caller = "Handshake")]_vars

\* C20 witness: a handshake has failed on a reconnect and the version text of
\* the earlier connection is still there.
C20_Witness ==
    /\ pc = "idle"
    /\ lastOp.op = "connect"
    /\ ~lastOp.result
    /\ InfoT # "NA"

\* Number of bytes of a frame held as a function on 0 .. n-1.
FrameLen(f) == Cardinality(DOMAIN f)

\* C15: the length byte of every command frame built equals the number of
\* bytes after the start marker up to and including the checksum.
C15_LengthCountsThroughChecksum ==
    DOMAIN cmdFrame # {} => cmdFrame[1] = FrameLen(cmdFrame) - 1

\* C15, amended: the length byte of every command frame built equals the
\* number of bytes after the length byte up to but excluding the checksum
\* (sender id, receiver id, command code, payload): 3 for a 6-byte frame.
C15_LengthCountsSenderToPayload ==
    DOMAIN cmdFrame # {} =>
        /\ FrameLen(cmdFrame) = 6
        /\ cmdFrame[1] = FrameLen(cmdFrame) - 3
        /\ cmdFrame[0] = hdr.DRIVER_SOM
        /\ cmdFrame[4] \in {hdr.CMD_GET_VERSION, hdr.COH_NUMHEATERS}

\* C15 witness: the heater-count query has been built and is about to be
\* written.
C15_Witness ==
    /\ pc = "write"
    /\ caller = "initializeHeaters"
    /\ DOMAIN cmdFrame # {}
    /\ cmdFrame[4] = hdr.COH_NUMHEATERS

\* C18: a step on which TimerHit runs while not connected changes nothing of
\* the session, makes no I/O and leaves no timer pending; one on which it
\* runs while connected leaves exactly one timer pending; and once a timer
\* is pending after a tick, another tick follows.
C18_TickReschedules ==
    /\ [][tickSeq' # tickSeq =>
            /\ ~connected =>
                  /\ timers' = 0
                  /\ UNCHANGED << connected, defined, InfoT, HeaterControlSP,
                                  HeaterParamNP, pc, caller, res, nWrites,
                                  nReads, nSleeps, discovered, lastOp,
                                  cmdFrame >>
            /\ connected => (timers' = 1 /\ connected')]_vars
    /\ \A b \in {0, 1} : (timers = 1 /\ tickSeq = b) ~> (tickSeq # b)

\* C18 witness: TimerHit has run while connected and its timer is pending.
C18_Witness ==
    /\ connected
    /\ timers = 1
    /\ tickSeq = 1

====
